---- MODULE Spec2Model ----
(***************************************************************************)
(* Peer lifecycle and state-consistency engine of awg-manager              *)
(* (src/server/src/cmd/awg-manager/main.go).                               *)
(*                                                                         *)
(* The three record files (server.json, clients.json, dl-tokens.json) and  *)
(* the configuration of the live interface are the shared state.  Every    *)
(* HTTP request is served by a goroutine, modelled as a process that runs  *)
(* one handler at a time, a step per file write or external command: the   *)
(* requests interleave where the Go scheduler can interleave them.         *)
(*                                                                         *)
(* Time is the wall clock read by time.Now(), in seconds.  A failing       *)
(* os.WriteFile leaves the file as it was.  Identifiers, tokens and keys   *)
(* come from crypto/rand and are modelled as fresh values.                 *)
(***************************************************************************)
EXTENDS Integers, Sequences, FiniteSets, TLC

(* ------------------------------ bounds --------------------------------- *)
MaxTime == 2     \* the clock stops here
MaxFaults == 1   \* failing writes and failing external commands

Procs == {1, 2}       \* request goroutines
ClientIDs == {1, 2}   \* values makeID draws, in this order
TokenIDs == {1}       \* values randomToken draws, in this order
MoreTokenIDs == {1, 2}  \* ... where a second token is issued

(* --------------------------- program constants ------------------------- *)
FirstHost == 2
MinHost == 2
MaxHost == 254
DefaultTTL == 3600
PrefixBits == 32
AllocMask == 24

(* time.Duration is a signed 64-bit count of nanoseconds, and holds no     *)
(* more than 9223372036 whole seconds.  The durations of the model count   *)
(* seconds in DurationBits bits; HugeTTL is the first number of seconds    *)
(* that does not fit.                                                      *)
DurationBits == 16
HugeTTL == 2 ^ (DurationBits - 1)

(* A *time.Time is the empty set (nil) or a singleton; so is a *int.       *)
ExpiryChoices == {{}, {1}}
TTLChoices == {{}, {0}, {1}}

(* ... a negative ttlSeconds, and one that is more seconds than a          *)
(* time.Duration holds.                                                    *)
OddTTLChoices == {{-1}, {HugeTTL}}

(* (gateway host, cursor) pairs the service may be serving with.           *)
HostChoices == {<<3, FirstHost>>, <<254, MaxHost>>}

(* Subnets the service may have been started with.                         *)
Subnet24 == [base |-> <<10, 8, 0, 0>>, ones |-> 24]
Subnet16 == [base |-> <<10, 8, 0, 0>>, ones |-> 16]

(* WG_SUBNET and the host of WG_ADDRESS a start may be given.              *)
StartConfigs ==
  {<<Subnet24, <<10, 8, 0, 3>>>>, <<Subnet16, <<10, 8, 0, 1>>>>,
   <<Subnet24, <<192, 168, 0, 1>>>>}

(* ------------------------------- keys ---------------------------------- *)
NoKey == [kind |-> "none", owner |-> 0]
PrivateKey(owner) == [kind |-> "private", owner |-> owner]
PublicKey(priv) == [kind |-> "public", owner |-> priv.owner]

(* ------------------------------ records -------------------------------- *)
NoAddr == [ip |-> <<0, 0, 0, 0>>, bits |-> 0]

ZeroState ==
  [serverPrivateKey |-> NoKey, serverPublicKey |-> NoKey,
   subnetCIDR |-> [base |-> <<0, 0, 0, 0>>, ones |-> 0],
   serverIP |-> <<0, 0, 0, 0>>, nextHost |-> 0]

serverState(subnet, ip, next) ==
  [serverPrivateKey |-> PrivateKey(0), serverPublicKey |-> PublicKey(PrivateKey(0)),
   subnetCIDR |-> subnet, serverIP |-> ip, nextHost |-> next]

(* ipnet.Contains(ip), for a mask of whole octets                          *)
Contains(subnet, ip) == \A i \in 1..(subnet.ones \div 8) : ip[i] = subnet.base[i]

(* Mutant of ensureServerState: the state is written at every start.       *)
ensureServerStateAnew(file, subnet, ip) ==
  IF ~Contains(subnet, ip)
    THEN [err |-> "server ip is not in subnet", st |-> file]
    ELSE [err |-> "", st |-> serverState(subnet, ip, FirstHost)]

(* file is server.json as found, ZeroState standing for no file: a file    *)
(* that exists is left as it is, whatever WG_SUBNET and WG_ADDRESS say.    *)
ensureServerState(file, subnet, ip) ==
  IF file # ZeroState
    THEN [err |-> "", st |-> file]
  ELSE IF ~Contains(subnet, ip)
    THEN [err |-> "server ip is not in subnet", st |-> file]
  ELSE [err |-> "", st |-> serverState(subnet, ip, FirstHost)]

(* CreatedAt is written once, copied to the listing and decides nothing:   *)
(* it is left out.                                                         *)
client(id, name, addr, exp) ==
  [id |-> id, name |-> name,
   publicKey |-> PublicKey(PrivateKey(id)), privateKey |-> PrivateKey(id),
   address |-> addr, expiresAt |-> exp]

(* Mutant of toPublic: the whole record is returned.                       *)
toPublicWhole(c) == c

toPublic(c) ==
  [id |-> c.id, name |-> c.name, publicKey |-> c.publicKey,
   address |-> c.address, expiresAt |-> c.expiresAt]

dlToken(tok, id, exp) ==
  [token |-> tok, clientId |-> id, expiresAt |-> exp, used |-> FALSE]

(* ------------------------------ helpers -------------------------------- *)
Range(s) == {s[i] : i \in DOMAIN s}

(* time.Time.After: strictly later.                                        *)
After(t, u) == t > u

(* Mutants of ClientExpired: a client never expires; a client is expired  *)
(* at its deadline already.                                                *)
ClientExpiredNever(c, t) == FALSE
ClientExpiredAtDeadline(c, t) == \E e \in c.expiresAt : t >= e

(* c.ExpiresAt != nil and now.After(c.ExpiresAt)                           *)
ClientExpired(c, t) == \E e \in c.expiresAt : After(t, e)

(* Mutant of TokenUsed: the used flag is not looked at.                     *)
TokenUsedIgnored(t) == FALSE

(* ts[idx].Used                                                            *)
TokenUsed(t) == t.used

(* Mutant of TokenExpired: the expiry is not looked at.                     *)
TokenExpiredIgnored(t, tm) == FALSE

(* time.Now().After(ts[idx].ExpiresAt)                                     *)
TokenExpired(t, tm) == After(tm, t.expiresAt)

(* Mutant of AppendToken: the list is started anew.                        *)
AppendTokenOnly(ts, t) == <<t>>

(* ts = append(ts, t)                                                      *)
AppendToken(ts, t) == Append(ts, t)

(* Mutant of MarkUsed: every token is marked.                              *)
MarkAllUsed(ts, idx) == [i \in DOMAIN ts |-> [ts[i] EXCEPT !.used = TRUE]]

(* ts[idx].Used = true                                                     *)
MarkUsed(ts, idx) == [ts EXCEPT ![idx].used = TRUE]

(* for i := range ts { if ts[i].Token == token { idx = i; break } }        *)
(* 0 stands for Go's idx = -1.                                             *)
FindToken(ts, tok) ==
  IF \E i \in DOMAIN ts : ts[i].token = tok
    THEN CHOOSE i \in DOMAIN ts :
           /\ ts[i].token = tok
           /\ \A j \in DOMAIN ts : ts[j].token = tok => i <= j
    ELSE 0

(* Mutant of HasClient: every id is taken to be there.                     *)
HasClientAlways(cs, id) == TRUE

(* for _, c := range cs { if c.ID == id { return c } }                     *)
HasClient(cs, id) == \E i \in DOMAIN cs : cs[i].id = id

FindClient(cs, id) ==
  cs[CHOOSE i \in DOMAIN cs :
       /\ cs[i].id = id
       /\ \A j \in DOMAIN cs : cs[j].id = id => i <= j]

(* Mutant of RemoveClient: the list is emptied.                            *)
RemoveClientAll(cs, id) == <<>>

(* the loop of deleteClient: every record with the id is dropped           *)
RemoveClient(cs, id) == SelectSeq(cs, LAMBDA c : c.id # id)

(* --------------------------- address allocator ------------------------- *)
(* net.IPv4(base[0], base[1], base[2], byte(h))                            *)
CandidateIP(base, h) == <<base[1], base[2], base[3], h % 256>>

(* Mutant of HostOutOfRange: no upper bound.                                *)
HostOutOfRangeNoUpper(h) == h < MinHost

(* st.NextHost < 2 || st.NextHost > 254                                    *)
HostOutOfRange(h) == h < MinHost \/ h > MaxHost

SkipsGateway(st, h) == CandidateIP(st.subnetCIDR.base, h) = st.serverIP

(* Mutant of allocateNextAddress: the cursor is left where it was.         *)
allocateNextAddressNoAdvance(st) ==
  IF st.subnetCIDR.ones # AllocMask
    THEN [err |-> "only /24 supported", addr |-> NoAddr, st |-> st]
  ELSE IF HostOutOfRange(st.nextHost)
    THEN [err |-> "address pool exhausted", addr |-> NoAddr, st |-> st]
  ELSE [err |-> "",
        addr |-> [ip |-> CandidateIP(st.subnetCIDR.base, st.nextHost), bits |-> PrefixBits],
        st |-> st]

allocateNextAddress(st) ==
  IF st.subnetCIDR.ones # AllocMask
    THEN [err |-> "only /24 supported", addr |-> NoAddr, st |-> st]
  ELSE IF HostOutOfRange(st.nextHost)
    THEN [err |-> "address pool exhausted", addr |-> NoAddr, st |-> st]
  ELSE LET h == IF SkipsGateway(st, st.nextHost) THEN st.nextHost + 1 ELSE st.nextHost
       IN [err |-> "",
           addr |-> [ip |-> CandidateIP(st.subnetCIDR.base, h), bits |-> PrefixBits],
           st |-> [st EXCEPT !.nextHost = h + 1]]

(* ------------------------------ renderers ------------------------------ *)
(* strings.Split(c.Address, "/")[0] + "/32"                                *)
PeerBlock(c) ==
  [publicKey |-> c.publicKey, allowedIPs |-> [ip |-> c.address.ip, bits |-> PrefixBits]]

(* Mutant of PeerIncluded: expired clients are rendered too.               *)
PeerIncludedAlways(c, t) == TRUE

(* the loop of applyServerConfig skips a client that is expired at t       *)
PeerIncluded(c, t) == ~ClientExpired(c, t)

RECURSIVE RenderPeers(_, _)
RenderPeers(cs, t) ==
  IF cs = <<>> THEN <<>>
  ELSE IF PeerIncluded(Head(cs), t)
    THEN <<PeerBlock(Head(cs))>> \o RenderPeers(Tail(cs), t)
    ELSE RenderPeers(Tail(cs), t)

(* Mutant of renderServerConfig: only the record changed last is pushed.   *)
renderServerConfigLastOnly(st, cs, t) ==
  [privateKey |-> st.serverPrivateKey,
   peers |-> IF cs = <<>> THEN <<>> ELSE RenderPeers(<<cs[Len(cs)]>>, t)]

renderServerConfig(st, cs, t) ==
  [privateKey |-> st.serverPrivateKey, peers |-> RenderPeers(cs, t)]

NoCfg == [privateKey |-> NoKey, address |-> NoAddr, peers |-> <<>>]

(* Mutant of renderClientConfig: the gateway's private key is written.     *)
renderClientConfigServerKey(c, st) ==
  [privateKey |-> st.serverPrivateKey, address |-> c.address,
   peers |-> <<st.serverPublicKey>>]

renderClientConfig(c, st) ==
  [privateKey |-> c.privateKey, address |-> c.address,
   peers |-> <<st.serverPublicKey>>]

(* ------------------------------- state --------------------------------- *)
VARIABLES
  now,       \* wall clock
  server,    \* server.json
  clients,   \* clients.json
  tokens,    \* dl-tokens.json
  live,      \* configuration of the live interface (last successful setconf)
  mu,        \* holders of app.mu (empty: unlocked)
  pc,        \* position of each request goroutine
  req,       \* the request each goroutine is serving
  loc,       \* its local variables st, cs, ts
  resp,      \* the response written by the step just taken (NoResp: none)
  rendered,  \* the configuration rendered by the step just taken (NoConf: none)
  nextId,    \* next fresh value of makeID
  nextTok,   \* next fresh value of randomToken
  faults,    \* failed writes and commands so far
  addrOf,    \* history: address handed to each client id by the allocator
  deleted,   \* history: ids whose delete-client returned 204
  okCount,   \* history: successful redemptions per token value
  created,   \* history: how the create-client request of each id ended
  removed,   \* history: ids a delete-client has written out of the client list
  issuedAt   \* history: time.Now() of the issue-link request of each token value

vars == <<now, server, clients, tokens, live, mu, pc, req, loc, resp, rendered,
          nextId, nextTok, faults, addrOf, deleted, okCount, created, removed,
          issuedAt>>

files == <<server, clients, tokens>>
fresh == <<nextId, nextTok>>
history == <<addrOf, deleted, okCount, created, removed, issuedAt>>

Names == {"alice"}

(* The body of a create-client request: whether it decodes as JSON, the    *)
(* name after TrimSpace, and the expiresAt string, nil or blank ({}) or a  *)
(* text that is the RFC3339 form of time t or is no RFC3339 text at all.   *)
createBody(json, name, expiresAt) ==
  [json |-> json, name |-> name, expiresAt |-> expiresAt]

TimeText(t) == [rfc3339 |-> TRUE, t |-> t]
Garbage == [rfc3339 |-> FALSE, t |-> 0]

WellFormedBodies ==
  {createBody(TRUE, n, {TimeText(t) : t \in e}) : n \in Names, e \in ExpiryChoices}

(* Not JSON; a blank name; an expiresAt that is not RFC3339.               *)
BadBodies ==
  {createBody(FALSE, "", {}),
   createBody(TRUE, "", {}),
   createBody(TRUE, "alice", {Garbage})}

(* Mutant of decodeCreate: nothing is validated.                           *)
decodeCreateUnchecked(b) ==
  [err |-> "", name |-> b.name, exp |-> {x.t : x \in b.expiresAt}]

(* json Decode, the name check and time.Parse of createClient, in the      *)
(* order of the code: the first defect found is the answer.                *)
decodeCreate(b) ==
  IF ~b.json
    THEN [err |-> "bad json", name |-> "", exp |-> {}]
  ELSE IF b.name = ""
    THEN [err |-> "name required", name |-> "", exp |-> {}]
  ELSE IF \E x \in b.expiresAt : ~x.rfc3339
    THEN [err |-> "expiresAt must be RFC3339", name |-> b.name, exp |-> {}]
  ELSE [err |-> "", name |-> b.name, exp |-> {x.t : x \in b.expiresAt}]

AdminToken == "admin-token"                \* a.adminToken
Credentials == {AdminToken, "other-token"}  \* the Authorization header, trimmed

NoConf == [privateKey |-> NoKey, peers |-> <<>>]
NoReq ==
  [op |-> "none", auth |-> "", id |-> 0, tok |-> 0, name |-> "", exp |-> {}, ttl |-> {}]
NoLoc == [st |-> ZeroState, cs |-> <<>>, ts |-> <<>>]
NoLink == [token |-> 0, expiresAt |-> 0]
NoResp ==
  [req |-> NoReq, status |-> "none", msg |-> "",
   cfg |-> NoCfg, list |-> <<>>, link |-> NoLink]

Response(status, msg) == [NoResp EXCEPT !.status = status, !.msg = msg]

(* States the data directory can be in when the service starts serving:    *)
(* server.json as written by ensureServerState, its cursor at the first    *)
(* host or advanced by earlier creations whose clients were deleted since. *)
(* With a mask other than /24 the cursor never moved.                      *)
InitialServerStates ==
  {serverState(Subnet24, CandidateIP(Subnet24.base, hc[1]), hc[2]) : hc \in HostChoices}
  \cup {serverState(Subnet16, CandidateIP(Subnet16.base, 1), FirstHost)}

(* No clients.json, no dl-tokens.json, nothing applied, no request.        *)
EmptyDataDir ==
  /\ now = 0
  /\ clients = <<>>
  /\ tokens = <<>>
  /\ live = NoConf
  /\ mu = {}
  /\ pc = [p \in Procs |-> "idle"]
  /\ req = [p \in Procs |-> NoReq]
  /\ loc = [p \in Procs |-> NoLoc]
  /\ resp = NoResp
  /\ rendered = NoConf
  /\ nextId = 1
  /\ nextTok = 1
  /\ faults = 0
  /\ addrOf = [i \in ClientIDs |-> NoAddr]
  /\ deleted = {}
  /\ okCount = [t \in MoreTokenIDs |-> 0]
  /\ created = [i \in ClientIDs |-> "none"]
  /\ removed = {}
  /\ issuedAt = [t \in MoreTokenIDs |-> {}]

Init ==
  /\ server \in InitialServerStates
  /\ EmptyDataDir

(* ------------------------------- steps --------------------------------- *)
(* Mutant of MutexFree: the handlers take no lock.                         *)
MutexFreeAlways == TRUE

(* a.mu.Lock() returns only when no goroutine holds the mutex.             *)
MutexFree == mu = {}

(* net/http serves each request on a goroutine of its own; goroutines are  *)
(* interchangeable, so a new request is given to the first free one.       *)
Serves(p) ==
  /\ pc[p] = "idle"
  /\ \A q \in Procs : q < p => pc[q] # "idle"

(* A request is decoded and a.mu.Lock() has returned: the handler holds    *)
(* the mutex and goes on.                                                  *)
Enter(p, r, label) ==
  /\ mu' = mu \cup {p}
  /\ req' = [req EXCEPT ![p] = r]
  /\ pc' = [pc EXCEPT ![p] = label]
  /\ resp' = NoResp
  /\ rendered' = NoConf

(* The handler goes on to its next step.                                   *)
Goto(p, label) ==
  /\ pc' = [pc EXCEPT ![p] = label]
  /\ resp' = NoResp
  /\ rendered' = NoConf
  /\ UNCHANGED <<req, mu, loc>>

(* What a response is told apart by: the method, path and credential of   *)
(* the request it answers, not the body that request came with.            *)
Answered(q) == [q EXCEPT !.name = "", !.exp = {}, !.ttl = {}]

(* The handler writes its response and returns; the deferred Unlock runs.  *)
Finish(p, q, r) ==
  /\ resp' = [r EXCEPT !.req = Answered(q)]
  /\ req' = [req EXCEPT ![p] = NoReq]
  /\ pc' = [pc EXCEPT ![p] = "idle"]
  /\ loc' = [loc EXCEPT ![p] = NoLoc]
  /\ mu' = mu \ {p}

(* ... in a step that renders no gateway configuration.                    *)
Reply(p, q, r) ==
  /\ Finish(p, q, r)
  /\ rendered' = NoConf

(* os.WriteFile or the external command fails.                             *)
Fault ==
  /\ faults < MaxFaults
  /\ faults' = faults + 1

WriteFailed(p) ==
  /\ Fault
  /\ Reply(p, req[p], Response("InternalServerError", "write failed"))

Tick ==
  /\ now < MaxTime
  /\ now' = now + 1
  /\ resp' = NoResp
  /\ rendered' = NoConf
  /\ UNCHANGED <<files, live, mu, pc, req, loc, fresh, faults, history>>

(* The service is stopped between two requests and started again: main    *)
(* runs ensureServerState and serves; the mutex and the goroutines are new, *)
(* the data directory and the interface are as they were left.  What the   *)
(* step writes is the log line "listening on ...".                         *)
Restart ==
  /\ \A p \in Procs : pc[p] = "idle"
  /\ \E cfg \in StartConfigs :
       LET e == ensureServerState(server, cfg[1], cfg[2])
       IN /\ e.err = ""
          /\ server' = e.st
  /\ resp' = Response("Listening", "")
  /\ rendered' = NoConf
  /\ UNCHANGED <<now, clients, tokens, live, mu, pc, req, loc, fresh, faults, history>>

(* ------------------------------- withAuth ----------------------------- *)
(* Mutant of Authorized: every credential is accepted.                     *)
AuthorizedAlways(got) == TRUE

(* subtle.ConstantTimeCompare(got, a.adminToken) = 1                       *)
Authorized(got) == got = AdminToken

(* The wrapper of the /api/ routes: a request with another credential is   *)
(* answered 401 before its handler h, which decodes the method, the path   *)
(* and the body, is called.                                                *)
withAuth(got, h) ==
  IF Authorized(got)
    THEN h
    ELSE /\ resp' = [Response("Unauthorized", "unauthorized") EXCEPT
                       !.req = [NoReq EXCEPT !.auth = got]]
         /\ rendered' = NoConf
         /\ UNCHANGED <<now, files, live, mu, pc, req, loc, fresh, faults, history>>

(* ----------------------------- config applier -------------------------- *)
(* Render at time.Now(), write <iface>.conf, run "awg setconf".  A failed  *)
(* write returns before the command; a failed command leaves the           *)
(* interface as it was.  Nothing reads <iface>.conf but the command, so    *)
(* the rendered text is kept for the step that built it only.              *)
applyServerConfig(st, cs, ok) ==
  LET cfg == renderServerConfig(st, cs, now)
  IN /\ rendered' = cfg
     /\ live' = IF ok THEN cfg ELSE live
     /\ IF ok THEN UNCHANGED faults ELSE Fault

(* cmd.Run() waits for "awg setconf" to exit, with no context and no       *)
(* deadline: a command that does not exit keeps the handler, and the mutex *)
(* it holds, where they are.                                               *)
ApplyBlocks(p) ==
  /\ pc[p] \in {"create_apply", "delete_apply"}
  /\ Fault
  /\ Goto(p, "apply_blocked")
  /\ UNCHANGED <<now, files, live, fresh, history>>

(* ------------------------------ create client -------------------------- *)
(* Decode and validate the body; then Lock, readServerState, loadClients,  *)
(* allocateNextAddress, build record.                                      *)
createClient(p, cred, bodies) ==
  /\ Serves(p)
  /\ \E b \in bodies :
            LET d == decodeCreate(b)
                q == [NoReq EXCEPT !.op = "create", !.auth = cred,
                                   !.name = d.name, !.exp = d.exp]
                a == allocateNextAddress(server)
                c == client(nextId, d.name, a.addr, d.exp)
            IN
            IF d.err # ""
              THEN /\ Reply(p, q, Response("BadRequest", d.err))
                   /\ UNCHANGED <<fresh, history>>
              ELSE
            /\ MutexFree
            /\ IF a.err # ""
                 THEN /\ Reply(p, q, Response("InternalServerError", a.err))
                      /\ UNCHANGED <<fresh, history>>
                 ELSE /\ nextId \in ClientIDs
                      /\ Enter(p, q, "create_save")
                      /\ loc' = [loc EXCEPT ![p] = [NoLoc EXCEPT !.st = a.st,
                                                      !.cs = Append(clients, c)]]
                      /\ nextId' = nextId + 1
                      /\ addrOf' = [addrOf EXCEPT ![nextId] = a.addr]
                      /\ created' = [created EXCEPT ![nextId] = "pending"]
                      /\ UNCHANGED <<nextTok, deleted, okCount, removed, issuedAt>>
  /\ UNCHANGED <<now, files, live, faults>>

(* A create-client request with a body that passes the validation, which  *)
(* is every request that gets as far as the mutex; and one with a body     *)
(* that does not, which is answered before the mutex and leaves no trace   *)
(* (C21), so that the requests served around it go the same with it or     *)
(* without it.                                                             *)
CreateClient(p, cred) == createClient(p, cred, WellFormedBodies)
CreateClientRejected(p, cred) == createClient(p, cred, BadBodies)

(* The id of the record a create-client request has appended to cs.        *)
NewClient(p) == loc[p].cs[Len(loc[p].cs)].id

Ended(p, how) == created' = [created EXCEPT ![NewClient(p)] = how]

CreateSaveClients(p) ==
  /\ pc[p] = "create_save"
  /\ \/ /\ clients' = loc[p].cs
        /\ Goto(p, "create_state")
        /\ UNCHANGED <<faults, created>>
     \/ /\ WriteFailed(p)
        /\ Ended(p, "list write failed")
        /\ UNCHANGED clients
  /\ UNCHANGED <<now, server, tokens, live, fresh, addrOf, deleted, okCount, removed, issuedAt>>

CreateWriteServerState(p) ==
  /\ pc[p] = "create_state"
  /\ \/ /\ server' = loc[p].st
        /\ Goto(p, "create_apply")
        /\ UNCHANGED <<faults, created>>
     \/ /\ WriteFailed(p)
        /\ Ended(p, "state write failed")
        /\ UNCHANGED server
  /\ UNCHANGED <<now, clients, tokens, live, fresh, addrOf, deleted, okCount, removed, issuedAt>>

CreateApply(p) ==
  /\ pc[p] = "create_apply"
  /\ \E ok \in BOOLEAN :
       /\ applyServerConfig(loc[p].st, loc[p].cs, ok)
       /\ Finish(p, req[p], IF ok THEN Response("OK", "")
                            ELSE Response("InternalServerError", "apply failed"))
       /\ Ended(p, IF ok THEN "ok" ELSE "apply failed")
  /\ UNCHANGED <<now, files, fresh, addrOf, deleted, okCount, removed, issuedAt>>

(* ------------------------------ delete client -------------------------- *)
(* Lock, readServerState, loadClients, filter out the id.                  *)
DeleteClient(p, cred) ==
  /\ Serves(p)
  /\ \E id \in ClientIDs :
            LET q == [NoReq EXCEPT !.op = "delete", !.auth = cred, !.id = id]
            IN
            /\ MutexFree
            /\ IF ~HasClient(clients, id)
                 THEN Reply(p, q, Response("NotFound", "not found"))
                 ELSE /\ Enter(p, q, "delete_save")
                      /\ loc' = [loc EXCEPT ![p] = [NoLoc EXCEPT !.st = server,
                                                      !.cs = RemoveClient(clients, id)]]
  /\ UNCHANGED <<now, files, live, fresh, faults, history>>

DeleteSaveClients(p) ==
  /\ pc[p] = "delete_save"
  /\ \/ /\ clients' = loc[p].cs
        /\ Goto(p, "delete_apply")
        /\ removed' = removed \cup {req[p].id}
        /\ UNCHANGED faults
     \/ /\ WriteFailed(p)
        /\ UNCHANGED <<clients, removed>>
  /\ UNCHANGED <<now, server, tokens, live, fresh, addrOf, deleted, okCount, created, issuedAt>>

DeleteApply(p) ==
  /\ pc[p] = "delete_apply"
  /\ \E ok \in BOOLEAN :
       /\ applyServerConfig(loc[p].st, loc[p].cs, ok)
       /\ Finish(p, req[p], IF ok THEN Response("NoContent", "")
                            ELSE Response("InternalServerError", "apply failed"))
       /\ deleted' = IF ok THEN deleted \cup {req[p].id} ELSE deleted
  /\ UNCHANGED <<now, files, fresh, addrOf, okCount, created, removed, issuedAt>>

(* ------------------------------- issue link ---------------------------- *)
(* time.Duration(ttl) * time.Second: the product wraps around.             *)
Seconds(ttl) ==
  ((ttl + 2 ^ (DurationBits - 1)) % 2 ^ DurationBits) - 2 ^ (DurationBits - 1)

(* ttl := 3600; if q.TTLSeconds != nil and its value > 0 { ttl = value }   *)
TTL(q) == IF \E v \in q : v > 0 THEN CHOOSE v \in q : v > 0 ELSE DefaultTTL

(* Lock, loadClients, look the id up, loadTokens, build the token.         *)
createOneTimeLink(p, cred, ttls, toks) ==
  /\ Serves(p)
  /\ \E id \in ClientIDs, ttl \in ttls :
            LET q == [NoReq EXCEPT !.op = "link", !.auth = cred,
                                   !.id = id, !.ttl = ttl]
                t == dlToken(nextTok, id, now + Seconds(TTL(ttl)))
            IN
            /\ MutexFree
            /\ IF ~HasClient(clients, id)
                 THEN /\ Reply(p, q, Response("NotFound", "not found"))
                      /\ UNCHANGED <<fresh, issuedAt>>
                 ELSE /\ nextTok \in toks
                      /\ Enter(p, q, "link_save")
                      /\ loc' = [loc EXCEPT ![p] =
                                   [NoLoc EXCEPT !.ts = AppendToken(tokens, t)]]
                      /\ nextTok' = nextTok + 1
                      /\ issuedAt' = [issuedAt EXCEPT ![nextTok] = {now}]
                      /\ UNCHANGED nextId
  /\ UNCHANGED <<now, files, live, faults, addrOf, deleted, okCount, created, removed>>

(* An issue-link request with no ttlSeconds, a zero or a small positive    *)
(* one; one with a ttlSeconds from the far ends of int; and one that may   *)
(* be the second to be given a token.                                      *)
CreateOneTimeLink(p, cred) == createOneTimeLink(p, cred, TTLChoices, TokenIDs)
CreateOneTimeLinkOdd(p, cred) == createOneTimeLink(p, cred, OddTTLChoices, TokenIDs)
CreateOneTimeLinkMore(p, cred) == createOneTimeLink(p, cred, TTLChoices, MoreTokenIDs)

LinkSaveTokens(p) ==
  /\ pc[p] = "link_save"
  /\ \/ LET t == loc[p].ts[Len(loc[p].ts)]
        IN /\ tokens' = loc[p].ts
           /\ Reply(p, req[p], [Response("OK", "") EXCEPT
                      !.link = [token |-> t.token, expiresAt |-> t.expiresAt]])
           /\ UNCHANGED faults
     \/ /\ WriteFailed(p)
        /\ UNCHANGED tokens
  /\ UNCHANGED <<now, server, clients, live, fresh, history>>

(* ------------------------------- redeem link --------------------------- *)
(* Lock, loadTokens, look the token up, refuse a used or expired one,      *)
(* else set ts[idx].Used.                                                  *)
handleDownloadToken(p, toks) ==
  /\ Serves(p)
  /\ MutexFree
  /\ \E tok \in toks :
       LET q == [NoReq EXCEPT !.op = "redeem", !.tok = tok]
           idx == FindToken(tokens, tok)
       IN IF idx = 0
            THEN Reply(p, q, Response("NotFound", "not found"))
          ELSE IF TokenUsed(tokens[idx])
            THEN Reply(p, q, Response("Gone", "gone"))
          ELSE IF TokenExpired(tokens[idx], now)
            THEN Reply(p, q, Response("Gone", "gone"))
          ELSE /\ Enter(p, q, "redeem_save")
               /\ loc' = [loc EXCEPT ![p] =
                            [NoLoc EXCEPT !.ts = MarkUsed(tokens, idx)]]
  /\ UNCHANGED <<now, files, live, fresh, faults, history>>

(* A redeem-link request for the path of the first token value; for that   *)
(* of the first or the second.                                             *)
HandleDownloadToken(p) == handleDownloadToken(p, TokenIDs)
HandleDownloadTokenMore(p) == handleDownloadToken(p, MoreTokenIDs)

RedeemSaveTokens(p) ==
  /\ pc[p] = "redeem_save"
  /\ \/ /\ tokens' = loc[p].ts
        /\ Goto(p, "redeem_find")
        /\ UNCHANGED faults
     \/ /\ WriteFailed(p)
        /\ UNCHANGED tokens
  /\ UNCHANGED <<now, server, clients, live, fresh, history>>

(* Mutant of findClientAndState: an id that is not stored finds the first  *)
(* record of the list.                                                     *)
findClientAndStateAnyone(id) ==
  IF clients # <<>>
    THEN [err |-> "",
          c |-> IF HasClient(clients, id) THEN FindClient(clients, id) ELSE clients[1],
          st |-> server]
    ELSE [err |-> "file does not exist", c |-> client(0, "", NoAddr, {}), st |-> server]

(* readServerState, loadClients, first record with the id or ErrNotExist   *)
findClientAndState(id) ==
  IF HasClient(clients, id)
    THEN [err |-> "", c |-> FindClient(clients, id), st |-> server]
    ELSE [err |-> "file does not exist", c |-> client(0, "", NoAddr, {}), st |-> server]

(* findClientAndState(ts[idx].ClientID), expiry check, renderClientConfig  *)
RedeemFind(p) ==
  /\ pc[p] = "redeem_find"
  /\ LET idx == FindToken(loc[p].ts, req[p].tok)
         f == findClientAndState(loc[p].ts[idx].clientId)
     IN IF f.err # ""
          THEN /\ Reply(p, req[p], Response("NotFound", "not found"))
               /\ UNCHANGED okCount
        ELSE IF ClientExpired(f.c, now)
          THEN /\ Reply(p, req[p], Response("Gone", "expired"))
               /\ UNCHANGED okCount
        ELSE /\ Reply(p, req[p], [Response("OK", "") EXCEPT
                                    !.cfg = renderClientConfig(f.c, f.st)])
             /\ okCount' = [okCount EXCEPT ![req[p].tok] = @ + 1]
  /\ UNCHANGED <<now, files, live, fresh, faults, addrOf, deleted, created, removed, issuedAt>>

(* ------------------------------- list clients -------------------------- *)
(* Mutant of PublicList: expired clients are not listed.                   *)
PublicListActive(cs) ==
  LET act == SelectSeq(cs, LAMBDA c : \A e \in c.expiresAt : e >= now)
  IN [i \in DOMAIN act |-> toPublic(act[i])]

RECURSIVE PublicList(_)
PublicList(cs) ==
  IF cs = <<>> THEN <<>> ELSE <<toPublic(Head(cs))>> \o PublicList(Tail(cs))

(* A goroutine is at its os.WriteFile of clients.json, which truncates the *)
(* file and then writes the new bytes.                                     *)
ClientsWriteInProgress == \E q \in Procs : pc[q] \in {"create_save", "delete_save"}

(* GET /api/clients: loadClients without the mutex, toPublic of each.  An  *)
(* os.ReadFile that falls inside a write of clients.json gets an empty or  *)
(* cut file, which json.Unmarshal refuses.                                 *)
ListClients(p, cred) ==
  /\ Serves(p)
  /\ LET q == [NoReq EXCEPT !.op = "list", !.auth = cred]
     IN \/ resp' = [Response("OK", "") EXCEPT !.req = q, !.list = PublicList(clients)]
        \/ /\ ClientsWriteInProgress
           /\ resp' = [Response("InternalServerError", "unexpected end of JSON input")
                         EXCEPT !.req = q]
  /\ rendered' = NoConf
  /\ UNCHANGED <<now, files, live, mu, pc, req, loc, fresh, faults, history>>

(* ------------------------------- routes -------------------------------- *)
(* /api/clients: GET lists, POST creates.                                  *)
handleClients(p, cred) ==
  \/ ListClients(p, cred)
  \/ CreateClient(p, cred)

(* /api/clients/{id}/link: POST issues a link; /api/clients/{id}: DELETE.  *)
handleClientByID(p, cred) ==
  \/ CreateOneTimeLink(p, cred)
  \/ DeleteClient(p, cred)

(* ---------------------------- specification ---------------------------- *)
Next ==
  \/ Tick
  \/ Restart
  \/ \E p \in Procs, cred \in Credentials :
       Serves(p) /\ withAuth(cred, handleClients(p, cred))
  \/ \E p \in Procs, cred \in Credentials :
       Serves(p) /\ withAuth(cred, handleClientByID(p, cred))
  \/ \E p \in Procs : CreateSaveClients(p)
  \/ \E p \in Procs : CreateWriteServerState(p)
  \/ \E p \in Procs : CreateApply(p)
  \/ \E p \in Procs : DeleteSaveClients(p)
  \/ \E p \in Procs : DeleteApply(p)
  \/ \E p \in Procs : ApplyBlocks(p)
  \/ \E p \in Procs : LinkSaveTokens(p)
  \/ \E p \in Procs : HandleDownloadToken(p)
  \/ \E p \in Procs : RedeemSaveTokens(p)
  \/ \E p \in Procs : RedeemFind(p)

Spec == Init /\ [][Next]_vars

(* The service with the requests of Next and, among them, create-client    *)
(* requests whose body is refused and issue-link requests with an odd      *)
(* ttlSeconds.                                                             *)
NextAnyBody ==
  \/ Next
  \/ \E p \in Procs, cred \in Credentials :
       Serves(p) /\ withAuth(cred, CreateClientRejected(p, cred))
  \/ \E p \in Procs, cred \in Credentials :
       Serves(p) /\ withAuth(cred, CreateOneTimeLinkOdd(p, cred))

(* ... over a subnet that is no /24, or a /24 with its cursor at the last  *)
(* host.                                                                   *)
InitAnyBody ==
  /\ Init
  /\ server.subnetCIDR.ones # AllocMask \/ server.nextHost = MaxHost

AnyBodySpec == InitAnyBody /\ [][NextAnyBody]_vars

(* The first start over an empty data directory: main runs                 *)
(* ensureServerState with WG_SUBNET and the host of WG_ADDRESS, and serves  *)
(* when it returned nil; otherwise log.Fatal ends the process with no      *)
(* server.json written.                                                    *)
FirstStart ==
  /\ server = ZeroState
  /\ \E cfg \in StartConfigs :
       LET e == ensureServerState(server, cfg[1], cfg[2])
       IN \/ /\ e.err = ""
             /\ server' = e.st
             /\ resp' = Response("Listening", "")
             /\ UNCHANGED faults
          \/ /\ e.err # ""
             /\ resp' = Response("Fatal", e.err)
             /\ UNCHANGED <<server, faults>>
          \/ /\ e.err = ""
             /\ Fault
             /\ resp' = Response("Fatal", "write failed")
             /\ UNCHANGED server
  /\ rendered' = NoConf
  /\ UNCHANGED <<now, clients, tokens, live, mu, pc, req, loc, fresh, history>>

(* The service from its installation on: requests are served once a start  *)
(* has succeeded, which is when server.json exists.                        *)
NextFirstStart ==
  \/ FirstStart
  \/ server # ZeroState /\ Next

InitFirstStart ==
  /\ server = ZeroState
  /\ EmptyDataDir

FirstStartSpec == InitFirstStart /\ [][NextFirstStart]_vars

(* The service with a second token: the requests of Next over a data      *)
(* directory whose pool is used up and that holds one client, stored and   *)
(* applied, and issue-link and redeem-link requests for two token values.  *)
LastClient(exp) ==
  client(1, "alice", [ip |-> CandidateIP(Subnet24.base, MaxHost), bits |-> PrefixBits], exp)

InitTwoTokens ==
  /\ now = 0
  /\ server = serverState(Subnet24, CandidateIP(Subnet24.base, 3), MaxHost + 1)
  /\ \E exp \in ExpiryChoices : clients = <<LastClient(exp)>>
  /\ tokens = <<>>
  /\ live = renderServerConfig(server, clients, now)
  /\ mu = {}
  /\ pc = [p \in Procs |-> "idle"]
  /\ req = [p \in Procs |-> NoReq]
  /\ loc = [p \in Procs |-> NoLoc]
  /\ resp = NoResp
  /\ rendered = NoConf
  /\ nextId = 2
  /\ nextTok = 1
  /\ faults = 0
  /\ addrOf = [i \in ClientIDs |-> IF i = 1 THEN clients[1].address ELSE NoAddr]
  /\ deleted = {}
  /\ okCount = [t \in MoreTokenIDs |-> 0]
  /\ created = [i \in ClientIDs |-> IF i = 1 THEN "ok" ELSE "none"]
  /\ removed = {}
  /\ issuedAt = [t \in MoreTokenIDs |-> {}]

(* With the pool used up every create-client is answered exhausted (C35): *)
(* the steps a create-client takes once it has an address are not steps of *)
(* this service.                                                           *)
NextTwoTokens ==
  \/ Tick
  \/ Restart
  \/ \E p \in Procs, cred \in Credentials :
       Serves(p) /\ withAuth(cred, handleClients(p, cred))
  \/ \E p \in Procs, cred \in Credentials :
       Serves(p) /\ withAuth(cred, handleClientByID(p, cred))
  \/ \E p \in Procs, cred \in Credentials :
       Serves(p) /\ withAuth(cred, CreateOneTimeLinkMore(p, cred))
  \/ \E p \in Procs : DeleteSaveClients(p)
  \/ \E p \in Procs : DeleteApply(p)
  \/ \E p \in Procs : ApplyBlocks(p)
  \/ \E p \in Procs : LinkSaveTokens(p)
  \/ \E p \in Procs : HandleDownloadToken(p)
  \/ \E p \in Procs : HandleDownloadTokenMore(p)
  \/ \E p \in Procs : RedeemSaveTokens(p)
  \/ \E p \in Procs : RedeemFind(p)

TwoTokenSpec == InitTwoTokens /\ [][NextTwoTokens]_vars

(* ------------------------------ properties ----------------------------- *)
(* The response just written answers a redeem-link request whose token is  *)
(* in the token list.                                                      *)
RedeemOfIssued ==
  /\ resp.req.op = "redeem"
  /\ FindToken(tokens, resp.req.tok) # 0

RedeemedToken == tokens[FindToken(tokens, resp.req.tok)]

(* ... and the handler went past the token checks and the token write to   *)
(* the lookup of the token's client.                                       *)
RedeemReachedClient ==
  /\ RedeemOfIssued
  /\ resp.msg \notin {"gone", "write failed"}

(* C1: within the pool bound, the addresses of the created clients are     *)
(* pairwise distinct and none is the gateway's serverIP.                   *)
C1_AddressesDistinct ==
  server.nextHost <= MaxHost =>
    /\ \A i, j \in DOMAIN clients :
         i # j => clients[i].address # clients[j].address
    /\ \A i \in DOMAIN clients : clients[i].address.ip # server.serverIP

(* C2: once a redemption of a token has succeeded, no later redemption of  *)
(* it succeeds: each is answered Gone, whatever time-to-live remains.      *)
C2_RedeemedOnce ==
  [][\A t \in TokenIDs :
       okCount[t] >= 1 =>
         /\ okCount'[t] = okCount[t]
         /\ (resp'.req.op = "redeem" /\ resp'.req.tok = t) => resp'.status = "Gone"]_vars

C2_Witness ==
  /\ RedeemOfIssued
  /\ resp.status = "Gone"
  /\ okCount[resp.req.tok] = 1
  /\ ~After(now, RedeemedToken.expiresAt)

(* C3: whatever the interleaving of the redeem-link requests on one token, *)
(* at most one returns the config; from the lookup of the token to the     *)
(* write of its used flag the handler holds the mutex, alone.              *)
C3_OneCriticalSection ==
  /\ \A t \in TokenIDs : okCount[t] <= 1
  /\ \A p \in Procs : pc[p] \in {"redeem_save", "redeem_find"} => mu = {p}

C3_Witness ==
  \E p \in Procs : \E q \in Procs \ {p} :
    /\ pc[p] = "redeem_find"
    /\ pc[q] = "idle"
    /\ ~ENABLED HandleDownloadToken(q)

(* C4: a redemption of an issued, unused token before the token's          *)
(* expiresAt consumes the token (unless the token write fails), and with   *)
(* the client present and not expired it returns that client's config:     *)
(* the client's private key and address, the gateway's public key as the   *)
(* only peer.                                                              *)
C4_FirstRedemption ==
  RedeemOfIssued =>
    LET t == RedeemedToken
        id == t.clientId
    IN /\ (~t.used /\ ~After(now, t.expiresAt)) => resp.msg = "write failed"
       /\ \A i \in DOMAIN clients :
            (/\ RedeemReachedClient
             /\ clients[i].id = id
             /\ \A e \in clients[i].expiresAt : ~After(now, e))
            => /\ resp.status = "OK"
               /\ resp.cfg.privateKey = PrivateKey(id)
               /\ resp.cfg.address = addrOf[id]
               /\ resp.cfg.peers = <<server.serverPublicKey>>

C4_Witness ==
  /\ RedeemReachedClient
  /\ resp.status = "OK"
  /\ resp.cfg.address = addrOf[RedeemedToken.clientId]
  /\ okCount[resp.req.tok] = 1

(* C5: a redeem-link request made after the token's expiresAt is answered  *)
(* Gone and does not consume the token, used or not, at every later time.  *)
C5_ExpiredTokenRefused ==
  [][\A i \in DOMAIN tokens :
       After(now, tokens[i].expiresAt) =>
         /\ \A p \in Procs :
              ~(pc[p] = "idle" /\ pc'[p] = "redeem_save" /\ req'[p].tok = tokens[i].token)
         /\ (resp'.req.op = "redeem" /\ resp'.req.tok = tokens[i].token /\ pc' = pc)
              => resp'.status = "Gone"]_vars

C5_Witness ==
  /\ RedeemOfIssued
  /\ resp.status = "Gone"
  /\ ~RedeemedToken.used
  /\ After(now, RedeemedToken.expiresAt)

(* The client a redeemed token names has been deleted / has expired.        *)
RedeemedClientMissing == ~HasClient(clients, RedeemedToken.clientId)

RedeemedClientExpired ==
  \E i \in DOMAIN clients :
    /\ clients[i].id = RedeemedToken.clientId
    /\ \E e \in clients[i].expiresAt : now > e

(* C6: a redemption of an unused, unexpired token whose client has expired *)
(* or has been deleted is answered Gone.                                   *)
C6_GoneWithoutClient ==
  (RedeemReachedClient /\ (RedeemedClientMissing \/ RedeemedClientExpired))
    => resp.status = "Gone"

(* C6, as the handler answers: Gone with the client expired, NotFound with *)
(* the client deleted, and the config in neither case.                     *)
C6_RefusedWithoutClient ==
  RedeemReachedClient =>
    /\ RedeemedClientExpired => (resp.status = "Gone" /\ resp.cfg = NoCfg)
    /\ RedeemedClientMissing => (resp.status = "NotFound" /\ resp.cfg = NoCfg)

C6_Witness ==
  /\ RedeemReachedClient
  /\ RedeemedClientMissing
  /\ RedeemedToken.clientId \in deleted
  /\ resp.status = "NotFound"

C6_WitnessExpired ==
  /\ RedeemReachedClient
  /\ RedeemedClientExpired
  /\ resp.status = "Gone"

(* C7: a create-client request made with the cursor above 254 is answered  *)
(* with the pool-exhausted error; it writes no client record and no server *)
(* state and it renders and applies no gateway configuration.              *)
C7_PoolExhausted ==
  [][server.nextHost > MaxHost =>
       /\ \A p \in Procs : pc[p] = "idle" => pc'[p] # "create_save"
       /\ (resp'.req.op = "create" /\ pc' = pc) =>
            /\ resp'.status = "InternalServerError"
            /\ resp'.msg = "address pool exhausted"
            /\ UNCHANGED <<clients, server, live>>
            /\ rendered' = NoConf]_vars

C7_Witness ==
  /\ resp.req.op = "create"
  /\ resp.msg = "address pool exhausted"
  /\ server.nextHost > MaxHost
  /\ server.subnetCIDR.ones = AllocMask

(* C8: a client whose deletion has succeeded is in no later listing and in *)
(* no gateway configuration rendered from then on, and no later            *)
(* create-client is given its address.                                     *)
C8_DeletedStaysGone ==
  /\ [](/\ resp.req.op = "list" =>
             \A i \in DOMAIN resp.list : resp.list[i].id \notin deleted
        /\ \A i \in DOMAIN rendered.peers :
             rendered.peers[i].publicKey.owner \notin deleted)
  /\ [][\A p \in Procs :
          (pc[p] = "idle" /\ pc'[p] = "create_save") =>
            \A d \in deleted : addrOf'[nextId] # addrOf[d]]_vars

C8_Witness ==
  /\ deleted # {}
  /\ \E i \in DOMAIN clients : clients[i].id \notin deleted
  /\ rendered.privateKey # NoKey

(* The clients that are not expired at time t, in stored order.            *)
ActiveAt(cs, t) == SelectSeq(cs, LAMBDA c : \A e \in c.expiresAt : e >= t)

(* C9: a rendered gateway configuration has the interface section and then *)
(* one peer block (public key, address as /32) for each stored client that *)
(* is not expired at render time, in stored order, and no other.           *)
C9_PeersOfActiveClients ==
  rendered.privateKey # NoKey =>
    LET act == ActiveAt(clients, now)
    IN /\ rendered.privateKey = server.serverPrivateKey
       /\ Len(rendered.peers) = Len(act)
       /\ \A k \in DOMAIN act :
            /\ rendered.peers[k].publicKey = PublicKey(PrivateKey(act[k].id))
            /\ rendered.peers[k].allowedIPs = [ip |-> addrOf[act[k].id].ip, bits |-> 32]

C9_Witness ==
  /\ rendered.privateKey # NoKey
  /\ Len(rendered.peers) >= 1
  /\ \E i \in DOMAIN clients : \E e \in clients[i].expiresAt : now > e

C9_WitnessOrder ==
  /\ rendered.privateKey # NoKey
  /\ Len(rendered.peers) = 2

(* A client of the list is expired and the live interface has its peer.    *)
ExpiredPeerLive ==
  \E i \in DOMAIN clients :
    /\ \E e \in clients[i].expiresAt : now > e
    /\ \E k \in DOMAIN live.peers : live.peers[k].publicKey = clients[i].publicKey

(* C10: at every moment after a client's expiresAt, the configuration last *)
(* applied to the live interface has no peer block for it.                 *)
C10_ExpiredNeverLive == ~ExpiredPeerLive

(* C10, as the program has it: a configuration has no peer block for a     *)
(* client expired when it is applied; one applied before the expiry stays  *)
(* on the interface until the next create-client or delete-client is       *)
(* applied.                                                                *)
C10_ExpiredLeftOutOnApply == [][live' # live => ~ExpiredPeerLive']_vars

C10_Witness ==
  /\ rendered.privateKey # NoKey
  /\ live = rendered
  /\ Len(live.peers) >= 1
  /\ \E i \in DOMAIN clients : \E e \in clients[i].expiresAt : now > e

(* The step answers "apply failed" to the request of goroutine p.           *)
ApplyFailedFor(p, label) ==
  /\ pc[p] = label
  /\ pc'[p] = "idle"
  /\ resp'.msg = "apply failed"

(* C11: when the apply step of a create-client or delete-client fails, the *)
(* request is answered with an error and the record change stays: the      *)
(* created client is in the client list with its address and the cursor    *)
(* past that address is in the server state; the deleted client is not in  *)
(* the client list.                                                        *)
C11_NoRollback ==
  [][\A p \in Procs :
       /\ ApplyFailedFor(p, "create_apply") =>
            /\ resp'.status = "InternalServerError"
            /\ \E i \in DOMAIN clients' :
                 /\ clients'[i].id = NewClient(p)
                 /\ clients'[i].address = addrOf[NewClient(p)]
            /\ server'.nextHost > addrOf[NewClient(p)].ip[4]
       /\ ApplyFailedFor(p, "delete_apply") =>
            /\ resp'.status = "InternalServerError"
            /\ \A i \in DOMAIN clients' : clients'[i].id # req[p].id]_vars

C11_Witness ==
  /\ resp.req.op = "create"
  /\ resp.msg = "apply failed"
  /\ \E i \in DOMAIN clients : created[clients[i].id] = "apply failed"

C11_WitnessDelete ==
  /\ resp.req.op = "delete"
  /\ resp.msg = "apply failed"
  /\ ~HasClient(clients, resp.req.id)

(* The step just taken rendered a configuration and applied it.            *)
JustApplied ==
  /\ rendered.privateKey # NoKey
  /\ live = rendered

LiveHasPeer(c) ==
  \E k \in DOMAIN live.peers :
    /\ live.peers[k].publicKey = c.publicKey
    /\ live.peers[k].allowedIPs.ip = c.address.ip

(* C12: whatever applies failed before, a create-client or delete-client   *)
(* whose apply succeeds leaves the live interface with the peers of all    *)
(* the persisted clients that are not expired, and of no other: no client  *)
(* whose apply failed is missing, no deleted one is left.                  *)
C12_FullStatePush ==
  JustApplied =>
    /\ \A i \in DOMAIN clients :
         (\A e \in clients[i].expiresAt : e >= now) => LiveHasPeer(clients[i])
    /\ \A k \in DOMAIN live.peers :
         \E i \in DOMAIN clients :
           /\ live.peers[k].publicKey = clients[i].publicKey
           /\ \A e \in clients[i].expiresAt : e >= now

C12_Witness ==
  /\ JustApplied
  /\ \E i \in DOMAIN clients :
       /\ created[clients[i].id] = "apply failed"
       /\ LiveHasPeer(clients[i])

(* C13: an address handed out by the allocator during a create-client is   *)
(* never handed out again by a later create-client, whether the request    *)
(* that consumed it went on to succeed or failed at the client-list write, *)
(* at the server-state write or at the apply.                              *)
C13_NeverHandedOutAgain ==
  [][\A p \in Procs :
       (pc[p] = "idle" /\ pc'[p] = "create_save") =>
         \A j \in ClientIDs : j < nextId => addrOf'[nextId] # addrOf[j]]_vars

C13_Witness ==
  \E i \in ClientIDs : \E j \in ClientIDs \ {i} :
    /\ created[i] \in {"list write failed", "state write failed"}
    /\ created[j] # "none"
    /\ addrOf[i] = addrOf[j]

(* C14: a goroutine that is anywhere between the first record read and the *)
(* last record write or apply of a create-client, delete-client,           *)
(* issue-link or redeem-link holds the mutex, alone; so at most one        *)
(* request is there at any time, and an idle goroutine holds nothing.      *)
C14_OneMutatorAtATime ==
  /\ Cardinality({p \in Procs : pc[p] # "idle"}) <= 1
  /\ \A p \in Procs : IF pc[p] = "idle" THEN p \notin mu ELSE mu = {p}

(* One request is inside its sequence while the other goroutine is free:   *)
(* no step takes the free one into a sequence of its own.                  *)
C14_Witness ==
  \E p \in Procs : \E q \in Procs \ {p} :
    /\ pc[p] \in {"create_state", "delete_apply", "link_save"}
    /\ pc[q] = "idle"
    /\ ~ENABLED (Next /\ pc'[q] # "idle")

(* C18: a request to an administrative route whose credential is not the   *)
(* admin token is answered Unauthorized by a step that changes no record,  *)
(* allocates nothing, issues nothing, applies nothing; no handler ever     *)
(* serves such a request.  The redeem route takes no credential.           *)
C18_UnauthorizedStopsHere ==
  [][/\ resp'.req.auth \notin {"", AdminToken} =>
          /\ resp'.status = "Unauthorized"
          /\ rendered' = NoConf
          /\ UNCHANGED <<files, live, fresh, faults, history, mu, pc, req, loc>>
     /\ \A p \in Procs : req'[p].auth \in {"", AdminToken}
     /\ \A p \in Procs : req'[p].op = "redeem" => req'[p].auth = ""]_vars

C18_Witness ==
  /\ resp.status = "Unauthorized"
  /\ resp.req.auth \in Credentials \ {AdminToken}
  /\ clients # <<>>
  /\ \E p \in Procs : pc[p] # "idle"

(* Every create-client request made so far has returned, and with success. *)
AllCreatesSucceeded ==
  /\ \A id \in ClientIDs : created[id] \in {"none", "ok"}
  /\ \E id \in ClientIDs : created[id] = "ok"

(* C15: when the create-client requests, however interleaved, have all     *)
(* succeeded, the client list holds one record for each (unless a          *)
(* delete-client took it out), the addresses in the list are pairwise      *)
(* distinct, and the live interface has a peer for each listed one that is *)
(* not expired.                                                            *)
C15_NoCreationLost ==
  AllCreatesSucceeded =>
    /\ \A id \in ClientIDs :
         (created[id] = "ok" /\ id \notin removed) =>
           /\ Cardinality({i \in DOMAIN clients : clients[i].id = id}) = 1
           /\ \A i \in DOMAIN clients :
                clients[i].id = id =>
                  /\ clients[i].address = addrOf[id]
                  /\ (\A e \in clients[i].expiresAt : e >= now) => LiveHasPeer(clients[i])
    /\ \A i \in DOMAIN clients : \A j \in DOMAIN clients :
         i # j => clients[i].address.ip # clients[j].address.ip

C15_Witness ==
  /\ \A id \in ClientIDs : created[id] = "ok"
  /\ Len(clients) = Cardinality(ClientIDs)
  /\ Len(live.peers) = Cardinality(ClientIDs)

(* C16: a list-clients request, whatever create-client or delete-client    *)
(* runs beside it, returns the clients of the client list as it stands     *)
(* before or after a whole write of it, and nothing else.                  *)
C16_ListIsSnapshot ==
  resp.req.op = "list" =>
    /\ resp.status = "OK"
    /\ Len(resp.list) = Len(clients)
    /\ \A i \in DOMAIN clients :
         /\ resp.list[i].id = clients[i].id
         /\ resp.list[i].address = clients[i].address

C16_Witness ==
  /\ resp.req.op = "list"
  /\ resp.status = "InternalServerError"
  /\ \E q \in Procs : pc[q] = "create_save"

(* Goroutine p has a step that takes its request further.                  *)
CanProceed(p) == ENABLED (Next /\ pc'[p] # pc[p])

(* C17: no request is ever left without a next step: a request that is     *)
(* being served goes on to its response, which releases the mutex, so a    *)
(* request waiting for the mutex gets it.                                  *)
C17_NoRequestSuspends == \A p \in Procs : pc[p] # "idle" => CanProceed(p)

C17_Witness ==
  \E p \in Procs : \E q \in Procs \ {p} :
    /\ pc[p] = "apply_blocked"
    /\ mu = {p}
    /\ pc[q] = "idle"
    /\ ~ENABLED HandleDownloadToken(q)

(* The response just written is a listing.                                 *)
Listed ==
  /\ resp.req.op = "list"
  /\ resp.status = "OK"

PublicFields == {"id", "name", "publicKey", "address", "expiresAt"}

(* The client list with every private key replaced by k.                   *)
WithPrivateKeys(cs, k) == [i \in DOMAIN cs |-> [cs[i] EXCEPT !.privateKey = k]]

(* C19: a listing has the public fields of each client and no other, the   *)
(* key in it is a public key, and the listing of a store that differs in   *)
(* the clients' private keys only is the same listing.                     *)
C19_ListingHidesPrivateKeys ==
  Listed =>
    /\ \A i \in DOMAIN resp.list :
         /\ DOMAIN resp.list[i] = PublicFields
         /\ resp.list[i].publicKey.kind = "public"
    /\ \A k \in {NoKey, PrivateKey(0)} :
         PublicList(WithPrivateKeys(clients, k)) = resp.list

C19_Witness ==
  /\ Listed
  /\ Len(resp.list) = 2
  /\ clients[1].privateKey # clients[2].privateKey

(* No create-client or delete-client is being served or answered.          *)
NoMutation ==
  /\ \A p \in Procs : req[p].op \notin {"create", "delete"}
  /\ resp.req.op \notin {"create", "delete"}

(* C20: a list-clients request changes no record, and what it returns is   *)
(* the public fields of the stored clients, in stored order; a step that   *)
(* belongs to no create-client and no delete-client (a listing, an         *)
(* issue-link, a redeem-link, the passing of time) leaves the client list  *)
(* as it is and never makes a listing fail: so listings with no            *)
(* create-client or delete-client between them are identical.              *)
C20_ListingRepeatable ==
  [][/\ resp'.req.op = "list" =>
          UNCHANGED <<files, live, fresh, faults, history, mu, pc, req, loc>>
     /\ Listed' =>
          resp'.list = [i \in DOMAIN clients |->
                          [id |-> clients[i].id, name |-> clients[i].name,
                           publicKey |-> clients[i].publicKey,
                           address |-> clients[i].address,
                           expiresAt |-> clients[i].expiresAt]]
     /\ (NoMutation /\ NoMutation') =>
          /\ clients' = clients
          /\ resp'.req.op = "list" => Listed']_vars

C20_Witness ==
  /\ Listed
  /\ Len(resp.list) >= 1
  /\ \E i \in DOMAIN tokens : tokens[i].used
  /\ \E i \in DOMAIN clients : \E e \in clients[i].expiresAt : now > e

(* The step just taken refused a create-client request: for its body, or   *)
(* for the mask of the subnet.                                             *)
CreateRefused ==
  /\ resp'.req.op = "create"
  /\ \/ resp'.status = "BadRequest"
     \/ resp'.msg = "only /24 supported"

(* Every record of the client list was made from a body that passes the    *)
(* validation, and none over a subnet that is no /24.                      *)
RecordsWellFormed ==
  /\ \A i \in DOMAIN clients :
       /\ clients[i].name \in Names
       /\ clients[i].expiresAt \in ExpiryChoices
  /\ server.subnetCIDR.ones # AllocMask => \A i \in ClientIDs : created[i] = "none"

C21_WitnessMask ==
  /\ resp.req.op = "create"
  /\ resp.msg = "only /24 supported"
  /\ server.subnetCIDR.ones = 16

(* The ids of the client list and the token values of the token list.      *)
StoredIds == {clients[i].id : i \in DOMAIN clients}
IssuedTokens == {tokens[i].token : i \in DOMAIN tokens}

(* The step just taken answered a request in the step it arrived in.       *)
AnsweredAtOnce ==
  /\ resp'.status # "none"
  /\ pc' = pc

(* ... a delete-client or issue-link for an id that is not in the client   *)
(* list, or a redeem-link for a token that is not in the token list.       *)
MissingTarget ==
  /\ AnsweredAtOnce
  /\ \/ resp'.req.op \in {"delete", "link"} /\ resp'.req.id \notin StoredIds
     \/ resp'.req.op = "redeem" /\ resp'.req.tok \notin IssuedTokens

(* C22: delete-client and issue-link for an id with no client record, and  *)
(* redeem-link for a token that was never issued, are answered not-found:  *)
(* none of them gets past the lookup, and the answering step leaves the    *)
(* client list, the server state, the token list and the live              *)
(* configuration as they were and runs no apply.                           *)
C22_MissingTargetChangesNothing ==
  [][/\ \A p \in Procs :
          /\ pc[p] = "idle" /\ pc'[p] \in {"delete_save", "link_save"}
               => req'[p].id \in StoredIds
          /\ pc[p] = "idle" /\ pc'[p] = "redeem_save"
               => req'[p].tok \in IssuedTokens
     /\ MissingTarget =>
          /\ resp'.status = "NotFound"
          /\ resp'.cfg = NoCfg
          /\ UNCHANGED <<server, clients, tokens, live, fresh>>
          /\ rendered' = NoConf]_vars

(* Not-found for a delete-client of an id that was deleted before, with    *)
(* another client stored and applied and a token issued.                   *)
C22_Witness ==
  /\ resp.status = "NotFound"
  /\ resp.req.op = "delete"
  /\ resp.req.id \in removed
  /\ clients # <<>>
  /\ live # NoConf

(* Not-found for an issue-link of an id never created.                     *)
C22_WitnessLink ==
  /\ resp.status = "NotFound"
  /\ resp.req.op = "link"
  /\ created[resp.req.id] = "none"
  /\ clients # <<>>

(* Not-found for a redeem-link of a token never issued.                    *)
C22_WitnessRedeem ==
  /\ resp.status = "NotFound"
  /\ resp.req.op = "redeem"
  /\ resp.req.tok \notin IssuedTokens
  /\ clients # <<>>

(* The host octet of an address.                                           *)
HostOf(addr) == addr.ip[4]

(* C23: every address the allocator hands out has its host octet in        *)
(* 2..254, whatever the gateway's address inside the /24 and whatever the  *)
(* cursor, the case in which the candidate is the gateway's own address    *)
(* and is skipped included.                                                *)
C23_HostInRange ==
  \A i \in ClientIDs :
    created[i] # "none" => HostOf(addrOf[i]) \in MinHost..MaxHost

(* A client is stored, and served by the gateway, under the host octet 255. *)
C23_Witness ==
  \E i \in DOMAIN clients :
    /\ HostOf(clients[i].address) = MaxHost + 1
    /\ created[clients[i].id] = "ok"
    /\ LiveHasPeer(clients[i])

(* The token an issue-link request has built.                              *)
NewToken(ts) == ts[Len(ts)]

(* C24: the expiresAt of an issued token is the issue time plus the        *)
(* request's ttlSeconds when that is positive, and the issue time plus     *)
(* 3600 seconds when ttlSeconds is omitted, zero or negative; the token is *)
(* stored, and returned, with that expiry.                                 *)
C24_TokenExpiry ==
  [][\A p \in Procs :
       /\ pc[p] = "idle" /\ pc'[p] = "link_save" =>
            LET t == NewToken(loc'[p].ts)
                ttl == req'[p].ttl
            IN /\ \A v \in ttl : v > 0 => t.expiresAt = now + v
               /\ (ttl = {} \/ \E v \in ttl : v <= 0)
                    => t.expiresAt = now + DefaultTTL
               /\ issuedAt'[t.token] = {now}
       /\ pc[p] = "link_save" /\ pc'[p] = "idle" /\ resp'.status = "OK" =>
            /\ tokens' = loc[p].ts
            /\ resp'.link.token = NewToken(loc[p].ts).token]_vars

(* A token is stored that expired before it was issued.                   *)
C24_Witness ==
  \E i \in DOMAIN tokens :
    \E t \in issuedAt[tokens[i].token] : tokens[i].expiresAt < t

(* The stored client a token was issued for, if it is still stored.        *)
ClientsOf(tok) ==
  {c \in Range(clients) : \E t \in Range(tokens) : t.token = tok /\ t.clientId = c.id}

(* Client c was past its expiresAt when token tok was issued.              *)
ExpiredAtIssue(c, tok) == \E t \in issuedAt[tok], e \in c.expiresAt : t > e

(* C25: issue-link is not refused for any client that is stored, one that  *)
(* is already expired included; and no redemption of a token that was      *)
(* issued for an already expired client returns a config.                  *)
C25_LinkForExpiredClient ==
  /\ resp.req.op = "link" /\ resp.req.id \in StoredIds
       => resp.status = "OK" \/ resp.msg = "write failed"
  /\ resp.req.op = "redeem" /\ resp.status = "OK"
       => \E c \in ClientsOf(resp.req.tok) : ~ExpiredAtIssue(c, resp.req.tok)
  /\ \A tok \in TokenIDs :
       (\E c \in ClientsOf(tok) : ExpiredAtIssue(c, tok)) => okCount[tok] = 0

(* A link is issued for a client that is expired.                          *)
C25_Witness ==
  /\ resp.req.op = "link"
  /\ resp.status = "OK"
  /\ \E c \in ClientsOf(resp.link.token) : ExpiredAtIssue(c, resp.link.token)

(* The token of such a link is redeemed, within its own lifetime, and      *)
(* refused.                                                                *)
C25_WitnessRedeem ==
  /\ resp.req.op = "redeem"
  /\ resp.status = "Gone"
  /\ resp.msg = "expired"
  /\ \E c \in ClientsOf(resp.req.tok) : ExpiredAtIssue(c, resp.req.tok)

(* The step just taken ran applyServerConfig.                              *)
ApplyRan == rendered' # NoConf

(* Goroutine p serves a create-client or delete-client that has written    *)
(* its change of the client list.                                          *)
RecordChangePersisted(p) == pc[p] \in {"create_state", "create_apply", "delete_apply"}

(* C26: a create-client or delete-client request that has persisted its    *)
(* record change runs the apply step before it returns, and once; no other *)
(* step (list, issue-link, redeem-link, a refused request) runs it.        *)
C26_ApplyOncePerChange ==
  [][/\ ApplyRan =>
          \E p \in Procs : pc[p] \in {"create_apply", "delete_apply"} /\ pc'[p] = "idle"
     /\ \A p \in Procs :
          RecordChangePersisted(p) /\ pc'[p] = "idle" => ApplyRan]_vars

(* A create-client has returned with its client stored and no apply run:   *)
(* the gateway does not serve the stored client.                           *)
C26_Witness ==
  /\ resp.req.op = "create"
  /\ resp.msg = "write failed"
  /\ \E i \in DOMAIN clients :
       /\ created[clients[i].id] = "state write failed"
       /\ ~LiveHasPeer(clients[i])

(* A redemption of token value tok is between its token write and its      *)
(* answer.                                                                 *)
RedeemInFlight(tok) == \E p \in Procs : pc[p] = "redeem_find" /\ req[p].tok = tok

(* C27: a token's used flag is true only by a redemption that returns the  *)
(* config: a stored token that is used has been redeemed successfully, or  *)
(* the redemption that set the flag has yet to answer; a redemption that   *)
(* fails leaves the flag as it was.                                        *)
C27_UsedOnlyBySuccess ==
  \A i \in DOMAIN tokens :
    tokens[i].used => okCount[tokens[i].token] >= 1 \/ RedeemInFlight(tokens[i].token)

(* A redemption was refused for its deleted client, and its token is left  *)
(* used without ever having returned a config.                             *)
C27_Witness ==
  /\ resp.req.op = "redeem"
  /\ resp.status = "NotFound"
  /\ \E i \in DOMAIN tokens :
       /\ tokens[i].token = resp.req.tok
       /\ tokens[i].used
       /\ okCount[tokens[i].token] = 0

(* ... for its expired client.                                             *)
C27_WitnessExpired ==
  /\ resp.req.op = "redeem"
  /\ resp.msg = "expired"
  /\ \E i \in DOMAIN tokens :
       /\ tokens[i].token = resp.req.tok
       /\ tokens[i].used
       /\ okCount[tokens[i].token] = 0

(* No request is being served: the files are as requests have left them.   *)
Quiet == \A p \in Procs : pc[p] = "idle"

(* C28: in every persisted state that requests leave behind, a failing     *)
(* write included, the persisted nextHost is greater than the host octet   *)
(* of every address in the persisted client list: the client-list write    *)
(* and the cursor write of a create take effect together or not at all.    *)
C28_CursorPastEveryAddress ==
  Quiet => \A i \in DOMAIN clients : server.nextHost > HostOf(clients[i].address)

(* A create-client has returned, its client stored at the host the cursor  *)
(* still points to.                                                        *)
C28_Witness ==
  /\ Quiet
  /\ resp.req.op = "create"
  /\ resp.msg = "write failed"
  /\ \E i \in DOMAIN clients : HostOf(clients[i].address) = server.nextHost

(* The response just written tells a create-client or delete-client that   *)
(* it succeeded.                                                           *)
ChangeSucceeded ==
  /\ resp.req.op \in {"create", "delete"}
  /\ resp.status \in {"OK", "NoContent"}

(* The peer blocks of the live configuration that are for client c.        *)
LiveBlocksOf(c) ==
  {k \in DOMAIN live.peers :
     /\ live.peers[k].publicKey = c.publicKey
     /\ live.peers[k].allowedIPs = [ip |-> c.address.ip, bits |-> PrefixBits]}

(* C29: whenever a create-client or delete-client returns success, the     *)
(* live configuration has exactly one peer block for each client of the    *)
(* persisted list that is not expired at render time, and no other peer    *)
(* block: every peer comes from the persisted list.                        *)
C29_LiveMatchesPersisted ==
  ChangeSucceeded =>
    LET act == ActiveAt(clients, now)
    IN /\ live.privateKey = server.serverPrivateKey
       /\ \A i \in DOMAIN act : Cardinality(LiveBlocksOf(act[i])) = 1
       /\ Len(live.peers) = Len(act)
       /\ \A k \in DOMAIN live.peers : \E i \in DOMAIN act : k \in LiveBlocksOf(act[i])

(* A create-client succeeds with two clients stored, one of them expired.  *)
C29_Witness ==
  /\ ChangeSucceeded
  /\ resp.req.op = "create"
  /\ Len(clients) = 2
  /\ Len(live.peers) = 1

(* A delete-client succeeds and leaves one client served.                  *)
C29_WitnessDelete ==
  /\ ChangeSucceeded
  /\ resp.req.op = "delete"
  /\ Len(clients) = 1
  /\ Len(live.peers) = 1

(* C30: the persisted nextHost never decreases, whatever requests and      *)
(* restarts follow one another: a start that finds server.json leaves it   *)
(* as it is, delete-client never writes it, and the only step that writes  *)
(* it is the cursor write of a create-client, with a larger nextHost and    *)
(* nothing else changed.                                                   *)
C30_CursorNeverDecreases ==
  [][/\ server'.nextHost >= server.nextHost
     /\ resp'.status = "Listening" => server' = server
     /\ server' # server =>
          /\ \E p \in Procs : pc[p] = "create_state" /\ pc'[p] = "create_apply"
          /\ server'.nextHost > server.nextHost
          /\ [server' EXCEPT !.nextHost = server.nextHost] = server]_vars

(* The service has been started again over a data directory whose cursor   *)
(* has moved, with a client stored and one deleted.                        *)
C30_Witness ==
  /\ resp.status = "Listening"
  /\ server.nextHost > FirstHost
  /\ clients # <<>>
  /\ deleted # {}

(* The address lies inside the subnet: the octets the mask covers agree.   *)
Inside(subnet, ip) == \A i \in 1..(subnet.ones \div 8) : ip[i] = subnet.base[i]

(* C31: every server state the service persists has its serverIP inside    *)
(* its subnetCIDR and a subnetCIDR whose mask is exactly /24; a first      *)
(* start that is given a subnet of another mask, or a serverIP outside the *)
(* subnet, ends without a server state persisted.                          *)
C31_PersistedStateWellFormed ==
  /\ [](server # ZeroState =>
          /\ Inside(server.subnetCIDR, server.serverIP)
          /\ server.subnetCIDR.ones = AllocMask)
  /\ [][resp'.status = "Fatal" => server' = ZeroState]_vars

(* The service was started on a /16, persisted that state and serves: a    *)
(* create-client is refused for the mask.                                  *)
C31_Witness ==
  /\ server # ZeroState
  /\ server.subnetCIDR.ones # AllocMask
  /\ server.nextHost = FirstHost
  /\ resp.req.op = "create"
  /\ resp.msg = "only /24 supported"

(* The fields of the server state that are written at the first start.     *)
ServerIdentity(st) ==
  <<st.serverPrivateKey, st.serverPublicKey, st.subnetCIDR, st.serverIP>>

(* The step just taken appended one record to the client list.             *)
AppendedOne ==
  /\ Len(clients') = Len(clients) + 1
  /\ SubSeq(clients', 1, Len(clients)) = clients
  /\ clients'[Len(clients')].id \notin StoredIds

(* The step just taken removed the records of one id, that of the          *)
(* delete-client request goroutine p serves, and kept the others in order. *)
RemovedOne(p) ==
  /\ req[p].op = "delete"
  /\ clients' = SelectSeq(clients, LAMBDA c : c.id # req[p].id)

(* C32: no step changes the identity fields of a record that exists: a     *)
(* stored client keeps the id, the keypair and the address it was created  *)
(* with for as long as it is stored, the server state keeps its keypair,   *)
(* subnetCIDR and serverIP; the client list changes only by a create-client *)
(* that appends one record and by a delete-client that removes the record  *)
(* with its id.                                                            *)
C32_IdentityFieldsKept ==
  /\ [](\A i \in DOMAIN clients :
          /\ clients[i].privateKey = PrivateKey(clients[i].id)
          /\ clients[i].publicKey = PublicKey(PrivateKey(clients[i].id))
          /\ clients[i].address = addrOf[clients[i].id])
  /\ [][/\ ServerIdentity(server') = ServerIdentity(server)
        /\ \A i \in DOMAIN clients : \A j \in DOMAIN clients' :
             clients'[j].id = clients[i].id => clients'[j] = clients[i]
        /\ clients' # clients =>
             \/ AppendedOne /\ \E p \in Procs : pc[p] = "create_save"
             \/ \E p \in Procs : pc[p] = "delete_save" /\ RemovedOne(p)]_vars

(* A delete-client has succeeded and left another client stored, after the *)
(* cursor moved twice.                                                     *)
C32_Witness ==
  /\ resp.req.op = "delete"
  /\ resp.status = "NoContent"
  /\ Len(clients) = 1
  /\ server.nextHost >= FirstHost + 2

(* What a token is issued with.                                            *)
TokenIdentity(t) == <<t.token, t.clientId, t.expiresAt>>

(* C33: the token list never shrinks and no token goes back from used to   *)
(* unused: every token that was issued stays in the persisted token list,  *)
(* at its place, with its token value, clientId and expiresAt unchanged,    *)
(* also after its client was deleted.                                      *)
C33_TokensKept ==
  /\ [](resp.req.op = "link" /\ resp.status = "OK"
          => resp.link.token \in IssuedTokens)
  /\ [][/\ Len(tokens') >= Len(tokens)
        /\ \A i \in DOMAIN tokens :
             /\ TokenIdentity(tokens'[i]) = TokenIdentity(tokens[i])
             /\ tokens[i].used => tokens'[i].used]_vars

(* Two tokens are stored, the first of them used, after their client was   *)
(* deleted.                                                                *)
C33_Witness ==
  /\ Len(tokens) = 2
  /\ tokens[1].used
  /\ tokens[1].clientId \in deleted
  /\ tokens[2].clientId \in deleted
  /\ clients = <<>>

(* The clientId of the stored token with value tok.                        *)
TokenClients(tok) == {tokens[i].clientId : i \in {j \in DOMAIN tokens : tokens[j].token = tok}}

(* C34: once the client a token refers to has been deleted, no redemption  *)
(* of that token succeeds, whatever create-client, delete-client,          *)
(* issue-link and redeem-link requests come later: a redemption that       *)
(* returns a config is for a client that no delete-client has removed.     *)
C34_DeletedClientTokenDead ==
  resp.req.op = "redeem" /\ (resp.status = "OK" \/ resp.cfg # NoCfg)
    => /\ TokenClients(resp.req.tok) # {}
       /\ TokenClients(resp.req.tok) \cap removed = {}
       /\ TokenClients(resp.req.tok) \subseteq StoredIds

(* A token is refused after its client was deleted and another client was  *)
(* created.                                                                *)
C34_Witness ==
  /\ resp.req.op = "redeem"
  /\ resp.status \in {"NotFound", "Gone"}
  /\ TokenClients(resp.req.tok) \cap deleted # {}
  /\ \E i \in DOMAIN clients :
       /\ clients[i].id \notin TokenClients(resp.req.tok)
       /\ created[clients[i].id] = "ok"

(* The persisted cursor is past the last host.                             *)
PoolUsedUp == server.nextHost > MaxHost

(* C35: once a create-client has failed with pool exhaustion, every later  *)
(* create-client fails with exhaustion too, however many clients are       *)
(* deleted in between: exhaustion is answered only with the cursor past    *)
(* the last host, the cursor stays there, and from then on no create-client *)
(* gets an address and every one that is answered is answered exhausted.   *)
C35_ExhaustionIsFinal ==
  /\ [](resp.msg = "address pool exhausted" => PoolUsedUp)
  /\ [][PoolUsedUp =>
          /\ PoolUsedUp'
          /\ \A p \in Procs : ~(pc[p] = "idle" /\ pc'[p] = "create_save")
          /\ resp'.req.op = "create" /\ pc' = pc
               => resp'.msg = "address pool exhausted" /\ nextId' = nextId]_vars

(* A create-client is answered exhausted with no client stored: the one    *)
(* that took the last address was deleted.                                 *)
C35_Witness ==
  /\ resp.req.op = "create"
  /\ resp.msg = "address pool exhausted"
  /\ clients = <<>>
  /\ deleted # {}

(* The positions of the issue-link and redeem-link handlers.               *)
TokenLabels == {"link_save", "redeem_save", "redeem_find"}

(* The step just taken is one of an issue-link or a redeem-link request.   *)
TokenRequestStep ==
  \/ \E p \in Procs : pc'[p] # pc[p] /\ (pc[p] \in TokenLabels \/ pc'[p] \in TokenLabels)
  \/ pc' = pc /\ resp'.req.op \in {"link", "redeem"}

(* The step appended one unused token of a new value.                      *)
AppendedOneToken ==
  /\ Len(tokens') = Len(tokens) + 1
  /\ SubSeq(tokens', 1, Len(tokens)) = tokens
  /\ ~tokens'[Len(tokens')].used
  /\ tokens'[Len(tokens')].token \notin IssuedTokens

(* The step set the used flag of the one token goroutine p's request names *)
(* and changed nothing else.                                               *)
MarkedOneToken(p) ==
  \E i \in DOMAIN tokens :
    /\ tokens[i].token = req[p].tok
    /\ ~tokens[i].used
    /\ tokens' = [tokens EXCEPT ![i].used = TRUE]

(* C36: issue-link and redeem-link leave the client list, the server state *)
(* and the applied gateway configuration unchanged and run no apply; the    *)
(* token list changes only by a successful issue-link, which appends one   *)
(* token with used = false and leaves every stored token as it was, and by *)
(* a redeem-link, which changes the used flag of the one token it matched  *)
(* and nothing else.                                                       *)
C36_TokenRequestsFrame ==
  [][/\ TokenRequestStep =>
          /\ UNCHANGED <<clients, server, live>>
          /\ rendered' = NoConf
     /\ tokens' # tokens =>
          \/ AppendedOneToken /\ \E p \in Procs :
               pc[p] = "link_save" /\ pc'[p] = "idle" /\ resp'.status = "OK"
          \/ \E p \in Procs : pc[p] = "redeem_save" /\ MarkedOneToken(p)]_vars

(* A redemption returns its config while another token, unused, is stored  *)
(* and stays unused.                                                       *)
C36_Witness ==
  /\ resp.req.op = "redeem"
  /\ resp.status = "OK"
  /\ Len(tokens) = 2
  /\ \E i \in DOMAIN tokens : ~tokens[i].used

====
